---- MODULE Spec2Model ----
(***************************************************************************)
(* Ppodo: the progression ledger of core/database.py (tasks, focus         *)
(* sessions, grapes -> bunches -> boxes, xp and levels, streak, badges)    *)
(* over one sqlite connection, with the committed store kept apart from    *)
(* the connection's uncommitted view; the countdown of core/timer.py; and  *)
(* the handlers of ui/main_window.py and ui/task_widget.py that drive both.*)
(***************************************************************************)
EXTENDS Integers, Sequences, FiniteSets, TLC

VARIABLES
    db,      \* the store as the open connection sees it (uncommitted writes included)
    disk,    \* the committed store: what a new connection would read
    today,   \* the system clock's calendar date: what date.today() returns
    last,    \* history: the operation that made the last step, and what it returned
    nDone,   \* history: number of complete_session calls that returned normally
    faults,  \* history: number of complete_session calls that raised part-way
    atomic,  \* history: the committed store an all-or-nothing complete_session would leave
    now,     \* the system clock's instant, in seconds: what CURRENT_TIMESTAMP reads
    timer,   \* the PomodoroTimer object, with the signals its last call emitted
    win,     \* the MainWindow object: its session fields and its three buttons
    phase    \* history: what the countdown in progress was started as (start_focus,
             \* start_break), or idle after stop() and after the end of a break

vars == <<db, disk, today, last, nDone, faults, atomic, now, timer, win, phase>>

----------------------------------------------------------------------------
(* Bounds of the model.                                                     *)

MaxGrapes == 2          \* complete_session calls explored when calls can raise
MaxLedgerGrapes == 101  \* complete_session calls explored on one calendar day
MaxStreakGrapes == 4    \* complete_session calls explored when the clock moves freely
MaxBadgeGrapes == 10    \* complete_session calls explored over the badge days
MaxDay == 3             \* the free clock shows Epoch and the MaxDay days after it
MaxBadgeDay == 1        \* the badge days are Epoch and the MaxBadgeDay days after it
MaxTasks == 1           \* tasks ever added
MaxSessions == 1        \* sessions ever started
MaxFaults == 1          \* complete_session calls that raise part-way
MaxAppSessions == 2     \* sessions started through the window's start button
MaxWait == 1            \* a running countdown is paused or stopped in its first MaxWait seconds
MaxNow == 2             \* the seconds the clock of CURRENT_TIMESTAMP advances
MaxXpLevel == 3         \* _add_xp is called on profiles up to this level

----------------------------------------------------------------------------
(* Calendar dates.  A date object is the record [year, month, day]; its ISO  *)
(* string 'YYYY-MM-DD' is the tuple <<year, month, day>>; NULL is <<>>.      *)

NULL == <<>>

IsLeap(y) == (y % 4 = 0) /\ ((y % 100 # 0) \/ (y % 400 = 0))

DaysInMonth(y, m) ==
    IF m = 2 THEN (IF IsLeap(y) THEN 29 ELSE 28)
    ELSE IF m \in {4, 6, 9, 11} THEN 30 ELSE 31

DaysBeforeYear(y) ==
    (y - 1) * 365 + ((y - 1) \div 4) - ((y - 1) \div 100) + ((y - 1) \div 400)

RECURSIVE DaysBeforeMonth(_, _)
DaysBeforeMonth(y, m) ==
    IF m = 1 THEN 0 ELSE DaysBeforeMonth(y, m - 1) + DaysInMonth(y, m - 1)

\* date.toordinal(), which date.__sub__ takes the difference of
toordinal(d) == DaysBeforeYear(d.year) + DaysBeforeMonth(d.year, d.month) + d.day

\* date.isoformat()
isoformat(d) == <<d.year, d.month, d.day>>

\* date.fromisoformat(s)
fromisoformat(s) == [year |-> s[1], month |-> s[2], day |-> s[3]]

\* The clock's first date: the days after it cross Feb 29 and Mar 1 of a leap year.
Epoch == [year |-> 2024, month |-> 2, day |-> 28]

\* The calendar day after d.
NextDate(d) ==
    IF d.day < DaysInMonth(d.year, d.month) THEN [d EXCEPT !.day = @ + 1]
    ELSE IF d.month < 12 THEN [d EXCEPT !.month = @ + 1, !.day = 1]
    ELSE [year |-> d.year + 1, month |-> 1, day |-> 1]

RECURSIVE DateAfter(_, _)
DateAfter(d, n) == IF n = 0 THEN d ELSE DateAfter(NextDate(d), n - 1)

\* The dates the clock can show: Epoch and the maxDay days after it.
Days(maxDay) == { DateAfter(Epoch, n) : n \in 0..maxDay }

\* CURRENT_TIMESTAMP: the instant of the statement, to the second
CURRENT_TIMESTAMP == <<"ts", now>>

----------------------------------------------------------------------------------------------------------------------------------------
(* The tables, and Database.__init__.                                       *)

\* _initialize_badge_definitions, the `badges` list in its order: name, category,
\* condition_type, condition_value (names and categories in English for the source's
\* Korean ones, one for one)
badges ==
    <<  [name |-> "first step",      category |-> "milestone",  condition_type |-> "grapes",           condition_value |-> 1],
        [name |-> "first bunch",     category |-> "milestone",  condition_type |-> "bunches",          condition_value |-> 1],
        [name |-> "first box",       category |-> "milestone",  condition_type |-> "boxes",            condition_value |-> 1],
        [name |-> "a week in a row", category |-> "streak",     condition_type |-> "streak",           condition_value |-> 7],
        [name |-> "perseverance",    category |-> "streak",     condition_type |-> "streak",           condition_value |-> 50],
        [name |-> "focus king",      category |-> "daily",      condition_type |-> "daily_grapes",     condition_value |-> 10],
        [name |-> "month master",    category |-> "daily",      condition_type |-> "monthly_days",     condition_value |-> 25],
        [name |-> "veteran",         category |-> "collection", condition_type |-> "grapes",           condition_value |-> 100],
        [name |-> "grape farm",      category |-> "collection", condition_type |-> "boxes",            condition_value |-> 10],
        [name |-> "legend",          category |-> "collection", condition_type |-> "grapes",           condition_value |-> 1000],
        [name |-> "early bird",      category |-> "timeofday",  condition_type |-> "morning_sessions", condition_value |-> 10],
        [name |-> "night owl",       category |-> "timeofday",  condition_type |-> "night_sessions",   condition_value |-> 10],
        [name |-> "level master",    category |-> "level",      condition_type |-> "level",            condition_value |-> 10],
        [name |-> "perfectionist",   category |-> "task",       condition_type |-> "tasks_completed",  condition_value |-> 100],
        [name |-> "time traveller",  category |-> "time",       condition_type |-> "total_hours",      condition_value |-> 100] >>

\* ORDER BY bd.category: the place of each category name of the source in sqlite's
\* binary collation of its UTF-8 text
CategoryRank(category) ==
    CASE category = "level" -> 1
      [] category = "milestone" -> 2
      [] category = "collection" -> 3
      [] category = "time" -> 4
      [] category = "timeofday" -> 5
      [] category = "streak" -> 6
      [] category = "daily" -> 7
      [] category = "task" -> 8

\* the user_profile row INSERT INTO user_profile (id) VALUES (1) makes: the DEFAULTs
user_profile ==
    [ level |-> 1, xp |-> 0,
      total_grapes |-> 0, total_bunches |-> 0, total_boxes |-> 0,
      current_bunch_grapes |-> 0, current_box_bunches |-> 0,
      total_focus_minutes |-> 0,
      streak_days |-> 0, last_focus_date |-> NULL ]

\* _create_tables on a new file: every table exists and has no row
_create_tables ==
    [ tasks |-> <<>>,              \* id -> row; a deleted id leaves the domain
      task_seq |-> 0,              \* AUTOINCREMENT: the largest task id ever used
      focus_sessions |-> <<>>,     \* row id = index
      grape_stats |-> <<>>,        \* ISO date (UNIQUE) -> row
      user_profile |-> <<>>,       \* the rows; CHECK (id = 1) allows one
      badge_definitions |-> <<>>,  \* the rows, in rowid order; name is UNIQUE
      user_badges |-> <<>> ]       \* rows: the badge_id of each, in insertion order

\* What seeding without the UNIQUE name would do: every start adds the row again.
insert_always(rows, badge) ==
    Append(rows, [ id |-> Len(rows) + 1, name |-> badge.name,
                   category |-> badge.category,
                   condition_type |-> badge.condition_type,
                   condition_value |-> badge.condition_value ])

\* INSERT OR IGNORE INTO badge_definitions (...): ignored when a row has the name,
\* else the next AUTOINCREMENT id (no row is ever deleted, so the row count + 1)
insert_or_ignore(rows, badge) ==
    IF \E i \in 1..Len(rows) : rows[i].name = badge.name
    THEN rows
    ELSE Append(rows, [ id |-> Len(rows) + 1, name |-> badge.name,
                        category |-> badge.category,
                        condition_type |-> badge.condition_type,
                        condition_value |-> badge.condition_value ])

\* for badge in badges: INSERT OR IGNORE, from the i-th badge on
RECURSIVE seed_from(_, _)
seed_from(rows, i) ==
    IF i > Len(badges) THEN rows
    ELSE seed_from(insert_or_ignore(rows, badges[i]), i + 1)

_initialize_badge_definitions(d) ==
    [d EXCEPT !.badge_definitions = seed_from(@, 1)]

\* What INSERT OR REPLACE in place of the COUNT(*) test would do: the row is reset.
_initialize_user_profile_replacing(d) ==
    [d EXCEPT !.user_profile = <<user_profile>>]

\* SELECT COUNT(*) FROM user_profile WHERE id = 1; INSERT when there is none
_initialize_user_profile(d) ==
    IF Len(d.user_profile) = 0
    THEN [d EXCEPT !.user_profile = <<user_profile>>]
    ELSE d

\* Database(db_path) on the file d: connect, create the tables that are missing
\* (none after the first start), seed the catalog, make the profile row; all committed
__init__(d) == _initialize_user_profile(_initialize_badge_definitions(d))

\* The store right after Database.__init__ on a new file.
EmptyStore == __init__(_create_tables)

----------------
(* Task management.                                                         *)

\* INSERT INTO tasks (title): the next AUTOINCREMENT id, completed DEFAULT 0
add_task(d, title) ==
    LET id == d.task_seq + 1 IN
    [d EXCEPT !.tasks = @ @@ (id :> [title |-> title, completed |-> FALSE,
                                     completed_at |-> NULL]),
              !.task_seq = id]

\* UPDATE tasks SET completed = 1, completed_at = CURRENT_TIMESTAMP WHERE id = ?
complete_task(d, task_id) ==
    IF task_id \in DOMAIN d.tasks
    THEN [d EXCEPT !.tasks[task_id].completed = TRUE,
                   !.tasks[task_id].completed_at = CURRENT_TIMESTAMP]
    ELSE d

\* DELETE FROM tasks WHERE id = ?
delete_task(d, task_id) ==
    [d EXCEPT !.tasks = [i \in (DOMAIN @) \ {task_id} |-> @[i]]]

----------------------------------------------------------------------------
(* Focus sessions.                                                          *)

\* INSERT INTO focus_sessions (task_id, started_at, duration_minutes)
start_session(d, task_id, duration) ==
    [d EXCEPT !.focus_sessions =
        Append(@, [task_id |-> task_id, started_at |-> CURRENT_TIMESTAMP,
                   ended_at |-> NULL, duration_minutes |-> duration,
                   completed |-> FALSE])]

\* UPDATE focus_sessions SET completed = 1, ended_at = CURRENT_TIMESTAMP WHERE id = ?
finalize_session(d, session_id) ==
    IF session_id \in DOMAIN d.focus_sessions
    THEN [d EXCEPT !.focus_sessions[session_id].completed = TRUE,
                   !.focus_sessions[session_id].ended_at = CURRENT_TIMESTAMP]
    ELSE d

----------------------------------------------------------------------------
(* Grapes, bunches, boxes.                                                  *)

\* SELECT * FROM user_profile WHERE id = 1
get_profile(d) == d.user_profile[1]

\* What an off-by-one in the bunch test would do: roll over only above ten.
rollover_above_ten(profile) ==
    LET new_bunch_grapes == profile.current_bunch_grapes + 1
        bunch == new_bunch_grapes > 10
        box_bunches == profile.current_box_bunches + (IF bunch THEN 1 ELSE 0)
        box == box_bunches >= 10
    IN  [ new_grapes |-> profile.total_grapes + 1,
          new_bunches |-> profile.total_bunches + (IF bunch THEN 1 ELSE 0),
          new_boxes |-> profile.total_boxes + (IF box THEN 1 ELSE 0),
          new_bunch_grapes |-> IF bunch THEN 0 ELSE new_bunch_grapes,
          new_box_bunches |-> IF box THEN 0 ELSE box_bunches ]

\* What resetting the wrong counter on a box would do: total_bunches back to 0.
rollover_resets_total(profile) ==
    LET new_bunch_grapes == profile.current_bunch_grapes + 1
        bunch == new_bunch_grapes >= 10
        box_bunches == profile.current_box_bunches + (IF bunch THEN 1 ELSE 0)
        box == box_bunches >= 10
    IN  [ new_grapes |-> profile.total_grapes + 1,
          new_bunches |-> IF box THEN 0
                          ELSE profile.total_bunches + (IF bunch THEN 1 ELSE 0),
          new_boxes |-> profile.total_boxes + (IF box THEN 1 ELSE 0),
          new_bunch_grapes |-> IF bunch THEN 0 ELSE new_bunch_grapes,
          new_box_bunches |-> IF box THEN 0 ELSE box_bunches ]

\* _add_grape, its locals: one more grape, a bunch at 10 grapes, a box at 10 bunches
rollover(profile) ==
    LET new_grapes == profile.total_grapes + 1
        new_bunch_grapes == profile.current_bunch_grapes + 1
        bunch == new_bunch_grapes >= 10
        new_bunches == profile.total_bunches + (IF bunch THEN 1 ELSE 0)
        box_bunches == profile.current_box_bunches + (IF bunch THEN 1 ELSE 0)
        box == box_bunches >= 10
    IN  [ new_grapes |-> new_grapes,
          new_bunches |-> new_bunches,
          new_boxes |-> profile.total_boxes + (IF box THEN 1 ELSE 0),
          new_bunch_grapes |-> IF bunch THEN 0 ELSE new_bunch_grapes,
          new_box_bunches |-> IF box THEN 0 ELSE box_bunches ]

\* What an UPDATE that also counted the session's minutes would do.
update_profile_grapes_and_minutes(d, r) ==
    [d EXCEPT !.user_profile[1].total_grapes = r.new_grapes,
              !.user_profile[1].total_bunches = r.new_bunches,
              !.user_profile[1].total_boxes = r.new_boxes,
              !.user_profile[1].current_bunch_grapes = r.new_bunch_grapes,
              !.user_profile[1].current_box_bunches = r.new_box_bunches,
              !.user_profile[1].total_focus_minutes = @ + 25]

\* _add_grape: UPDATE user_profile SET total_grapes, total_bunches, total_boxes,
\* current_bunch_grapes, current_box_bunches
update_profile_grapes(d, r) ==
    [d EXCEPT !.user_profile[1].total_grapes = r.new_grapes,
              !.user_profile[1].total_bunches = r.new_bunches,
              !.user_profile[1].total_boxes = r.new_boxes,
              !.user_profile[1].current_bunch_grapes = r.new_bunch_grapes,
              !.user_profile[1].current_box_bunches = r.new_box_bunches]

\* _add_grape: INSERT INTO grape_stats ... ON CONFLICT(date) DO UPDATE SET ...
\* with excluded = (1, 1 if new_bunch_grapes == 0 else 0, 1 if new_box_bunches == 0 else 0)
upsert_grape_stats(d, day, r) ==
    LET key == isoformat(day)
        excluded == [ grapes_earned |-> 1,
                      bunches_completed |-> IF r.new_bunch_grapes = 0 THEN 1 ELSE 0,
                      boxes_completed |-> IF r.new_box_bunches = 0 THEN 1 ELSE 0 ]
    IN  IF key \in DOMAIN d.grape_stats
        THEN [d EXCEPT !.grape_stats[key] =
                [ grapes_earned |-> @.grapes_earned + 1,
                  bunches_completed |-> @.bunches_completed + excluded.bunches_completed,
                  boxes_completed |-> @.boxes_completed + excluded.boxes_completed ]]
        ELSE [d EXCEPT !.grape_stats = @ @@ (key :> excluded)]

----------------------------------------------------------------------------
(* Experience and levels.                                                   *)

RECURSIVE Pow(_, _)
Pow(b, e) == IF e = 0 THEN 1 ELSE b * Pow(b, e - 1)

\* int(100 * (1.5 ** (level - 1))): 1.5 ** k is exactly 3^k / 2^k in a double, and
\* int() truncates the non-negative product
get_xp_for_next_level(level) == (100 * Pow(3, level - 1)) \div Pow(2, level - 1)

\* _add_xp: required_xp = int(100 * (1.5 ** (new_level - 1)))
required_xp_at(new_level) == (100 * Pow(3, new_level - 1)) \div Pow(2, new_level - 1)

\* What a strict comparison in the loop would do: level up only above the requirement.
level_up_strict(new_xp, new_level) ==
    LET required_xp == required_xp_at(new_level) IN
    IF new_xp > required_xp
    THEN [xp |-> new_xp - required_xp, level |-> new_level + 1]
    ELSE [xp |-> new_xp, level |-> new_level]

\* What an `if` in place of the `while` would do: one level for each call at most.
level_up_once(new_xp, new_level) ==
    LET required_xp == required_xp_at(new_level) IN
    IF new_xp >= required_xp
    THEN [xp |-> new_xp - required_xp, level |-> new_level + 1]
    ELSE [xp |-> new_xp, level |-> new_level]

\* _add_xp, the while loop
RECURSIVE level_up(_, _)
level_up(new_xp, new_level) ==
    LET required_xp == required_xp_at(new_level) IN
    IF new_xp >= required_xp
    THEN level_up(new_xp - required_xp, new_level + 1)
    ELSE [xp |-> new_xp, level |-> new_level]

\* UPDATE user_profile SET xp = ?, level = ?
_add_xp(d, amount) ==
    LET profile == get_profile(d)
        r == level_up(profile.xp + amount, profile.level)
    IN  [d EXCEPT !.user_profile[1].xp = r.xp, !.user_profile[1].level = r.level]

----------------------------------------------------------------------------
(* Streak.                                                                  *)

\* What counting a same-day session again would do.
new_streak_same_day_counts(profile, day) ==
    LET last_focus == profile.last_focus_date IN
    IF last_focus = NULL THEN 1
    ELSE LET days_diff == toordinal(day) - toordinal(fromisoformat(last_focus)) IN
         IF days_diff \in {0, 1} THEN profile.streak_days + 1 ELSE 1

\* What a streak that no gap breaks would do: every other day counts as the next.
new_streak_never_broken(profile, day) ==
    LET last_focus == profile.last_focus_date IN
    IF last_focus = NULL THEN 1
    ELSE LET days_diff == toordinal(day) - toordinal(fromisoformat(last_focus)) IN
         IF days_diff = 0 THEN profile.streak_days ELSE profile.streak_days + 1

\* _update_streak, the branches on last_focus_date and days_diff
new_streak(profile, day) ==
    LET last_focus == profile.last_focus_date IN
    IF last_focus = NULL THEN 1
    ELSE LET last_focus_date == fromisoformat(last_focus)
             days_diff == toordinal(day) - toordinal(last_focus_date)
         IN  IF days_diff = 0 THEN profile.streak_days
             ELSE IF days_diff = 1 THEN profile.streak_days + 1
             ELSE 1

\* UPDATE user_profile SET streak_days = ?, last_focus_date = ?
_update_streak(d, day) ==
    [d EXCEPT !.user_profile[1].streak_days = new_streak(get_profile(d), day),
              !.user_profile[1].last_focus_date = isoformat(day)]

----------------------------------------------------------------------------
(* complete_session, statement by statement.  Its writes, in order:         *)
(*   1 the session row   2 the profile's grapes   3 the day's grape_stats   *)
(*   4 xp and level      5 streak and last_focus_date        then commit.   *)

XpPerGrape == 10

\* The store after the first n write statements of complete_session(session_id).
complete_session_writes(d, session_id, day, n) ==
    LET d1 == finalize_session(d, session_id)
        r  == rollover(get_profile(d1))
        d2 == IF n >= 2 THEN update_profile_grapes(d1, r) ELSE d1
        d3 == IF n >= 3 THEN upsert_grape_stats(d2, day, r) ELSE d2
        d4 == IF n >= 4 THEN _add_xp(d3, XpPerGrape) ELSE d3
        d5 == IF n >= 5 THEN _update_streak(d4, day) ELSE d4
    IN  d5

\* complete_session(session_id), all of its writes
complete_session(d, session_id, day) ==
    complete_session_writes(d, session_id, day, 5)

----------------------------------------------------------------------------
(* Badges.                                                                  *)

\* get_today_stats: today's grape_stats row, or zeros when there is none
get_today_stats(d, day) ==
    IF isoformat(day) \in DOMAIN d.grape_stats
    THEN d.grape_stats[isoformat(day)]
    ELSE [grapes_earned |-> 0, bunches_completed |-> 0, boxes_completed |-> 0]

\* ORDER BY bd.category, bd.id
bd_before(a, b) ==
    \/ CategoryRank(a.category) < CategoryRank(b.category)
    \/ (CategoryRank(a.category) = CategoryRank(b.category) /\ a.id < b.id)

\* the user_badges rows that join one badge definition
EarnedRows(d, id) == SelectSeq(d.user_badges, LAMBDA badge_id : badge_id = id)

\* What losing the join would do: every definition comes back once, never earned.
get_all_badges_unjoined(d) ==
    LET bds == SortSeq(d.badge_definitions, bd_before) IN
    [ i \in 1..Len(bds) |->
        [ id |-> bds[i].id,
          condition_type |-> bds[i].condition_type,
          condition_value |-> bds[i].condition_value,
          earned |-> FALSE ] ]

\* badge_definitions LEFT JOIN user_badges: one row for each matching user_badges
\* row (earned), one unearned row for a definition without any
RECURSIVE JoinFrom(_, _, _)
JoinFrom(d, bds, i) ==
    IF i > Len(bds) THEN <<>>
    ELSE LET bd == bds[i]
             n == Len(EarnedRows(d, bd.id))
             row == [ id |-> bd.id, condition_type |-> bd.condition_type,
                      condition_value |-> bd.condition_value, earned |-> n > 0 ]
         IN  [ k \in 1..(IF n = 0 THEN 1 ELSE n) |-> row ] \o JoinFrom(d, bds, i + 1)

get_all_badges(d) == JoinFrom(d, SortSeq(d.badge_definitions, bd_before), 1)

\* What a final else that took the number of finalized sessions for the stat of
\* every other condition_type would do.
condition_met_or_sessions(d, badge, profile, today_stats) ==
    LET condition_type == badge.condition_type
        condition_value == badge.condition_value
        sessions == Cardinality({ i \in DOMAIN d.focus_sessions :
                                    d.focus_sessions[i].completed })
    IN  CASE condition_type = "grapes" -> profile.total_grapes >= condition_value
          [] condition_type = "bunches" -> profile.total_bunches >= condition_value
          [] condition_type = "boxes" -> profile.total_boxes >= condition_value
          [] condition_type = "streak" -> profile.streak_days >= condition_value
          [] condition_type = "daily_grapes" -> today_stats.grapes_earned >= condition_value
          [] condition_type = "level" -> profile.level >= condition_value
          [] condition_type = "tasks_completed" ->
                Cardinality({ i \in DOMAIN d.tasks : d.tasks[i].completed }) >= condition_value
          [] condition_type = "total_hours" ->
                profile.total_focus_minutes >= 60 * condition_value
          [] OTHER -> sessions >= condition_value

\* the condition of one badge row, on the profile and today's stats read at the start
\* of the pass; a condition_type without a branch leaves earned = False
condition_met(d, badge, profile, today_stats) ==
    LET condition_type == badge.condition_type
        condition_value == badge.condition_value
    IN  CASE condition_type = "grapes" -> profile.total_grapes >= condition_value
          [] condition_type = "bunches" -> profile.total_bunches >= condition_value
          [] condition_type = "boxes" -> profile.total_boxes >= condition_value
          [] condition_type = "streak" -> profile.streak_days >= condition_value
          [] condition_type = "daily_grapes" -> today_stats.grapes_earned >= condition_value
          [] condition_type = "level" -> profile.level >= condition_value
          [] condition_type = "tasks_completed" ->
                Cardinality({ i \in DOMAIN d.tasks : d.tasks[i].completed }) >= condition_value
          \* total_focus_minutes / 60 >= condition_value, in floating point
          [] condition_type = "total_hours" ->
                profile.total_focus_minutes >= 60 * condition_value
          [] OTHER -> FALSE

\* What leaving the loop at the first award would do: one badge for each pass.
new_badges_first_only(d, day) ==
    LET profile == get_profile(d)
        today_stats == get_today_stats(d, day)
        rows == SelectSeq(get_all_badges(d),
                          LAMBDA badge : ~badge.earned
                                         /\ condition_met(d, badge, profile, today_stats))
    IN  IF rows = <<>> THEN rows ELSE <<rows[1]>>

\* check_and_award_badges: the rows awarded by one pass, in the order of the pass
new_badges(d, day) ==
    LET profile == get_profile(d)
        today_stats == get_today_stats(d, day)
    IN  SelectSeq(get_all_badges(d),
                  LAMBDA badge : ~badge.earned
                                 /\ condition_met(d, badge, profile, today_stats))

BadgeRowIds(rows) == [ i \in 1..Len(rows) |-> rows[i].id ]

\* check_and_award_badges: INSERT INTO user_badges (badge_id) for each awarded row
check_and_award_badges(d, day) ==
    [d EXCEPT !.user_badges = @ \o BadgeRowIds(new_badges(d, day))]

----------------------------------------------------------------------------
(* PomodoroTimer.  state holds the TimerState value; qt_timer is            *)
(* qt_timer.isActive(); signals is what the call in progress has emitted.   *)

\* PomodoroTimer(focus_minutes, break_minutes)
PomodoroTimer(focus_minutes, break_minutes) ==
    [ focus_duration |-> focus_minutes * 60,
      break_duration |-> break_minutes * 60,
      state |-> "idle",
      remaining_seconds |-> 0,
      total_seconds |-> 0,
      qt_timer |-> FALSE,
      signals |-> <<>> ]

\* a call on the timer begins: nothing emitted yet
called(t) == [t EXCEPT !.signals = <<>>]

\* signal.emit(...)
emit(t, signal) == [t EXCEPT !.signals = Append(@, signal)]

Emitted(t, name) == \E i \in 1..Len(t.signals) : t.signals[i][1] = name

start_focus(t) ==
    LET t1 == [t EXCEPT !.state = "focus",
                        !.remaining_seconds = t.focus_duration,
                        !.total_seconds = t.focus_duration,
                        !.qt_timer = TRUE]
    IN  emit(emit(t1, <<"state_changed", t1.state>>), <<"tick", t1.remaining_seconds>>)

start_break(t) ==
    LET t1 == [t EXCEPT !.state = "break",
                        !.remaining_seconds = t.break_duration,
                        !.total_seconds = t.break_duration,
                        !.qt_timer = TRUE]
    IN  emit(emit(t1, <<"state_changed", t1.state>>), <<"tick", t1.remaining_seconds>>)

\* What pausing without stopping the Qt timer would do: the countdown goes on.
pause_keeps_ticking(t) ==
    IF t.state \in {"focus", "break"}
    THEN emit([t EXCEPT !.state = "paused"], <<"state_changed", "paused">>)
    ELSE t

pause(t) ==
    IF t.state \in {"focus", "break"}
    THEN emit([t EXCEPT !.qt_timer = FALSE, !.state = "paused"],
              <<"state_changed", "paused">>)
    ELSE t

\* What a resume without its test of the state would do.
resume_unguarded(t) ==
    LET t1 == [t EXCEPT !.state = IF t.total_seconds = t.focus_duration
                                  THEN "focus" ELSE "break",
                        !.qt_timer = TRUE]
    IN  emit(t1, <<"state_changed", t1.state>>)

\* the phase to restore is read off total_seconds
resume(t) ==
    IF t.state = "paused"
    THEN LET t1 == [t EXCEPT !.state = IF t.total_seconds = t.focus_duration
                                       THEN "focus" ELSE "break",
                             !.qt_timer = TRUE]
         IN  emit(t1, <<"state_changed", t1.state>>)
    ELSE t

\* What a stop that left the countdown's numbers in place would do.
stop_keeps_countdown(t) ==
    LET t1 == [t EXCEPT !.qt_timer = FALSE, !.state = "idle"]
    IN  emit(emit(t1, <<"state_changed", t1.state>>), <<"tick", t1.remaining_seconds>>)

stop(t) ==
    LET t1 == [t EXCEPT !.qt_timer = FALSE, !.state = "idle",
                        !.remaining_seconds = 0, !.total_seconds = 0]
    IN  emit(emit(t1, <<"state_changed", t1.state>>), <<"tick", t1.remaining_seconds>>)

\* the slots of focus_completed and break_completed leave the timer alone, so the
\* timer after the emit is the timer before it
_on_complete(t) ==
    LET t1 == [t EXCEPT !.qt_timer = FALSE] IN
    IF t1.state = "focus" THEN start_break(emit(t1, <<"focus_completed">>))
    ELSE IF t1.state = "break"
         THEN emit(emit([t1 EXCEPT !.state = "idle"], <<"break_completed">>),
                   <<"state_changed", "idle">>)
         ELSE t1

\* What a timeout that forgets to count down would do.
_on_tick_without_countdown(t) ==
    LET t2 == emit(t, <<"tick", t.remaining_seconds>>)
    IN  IF t2.remaining_seconds <= 0 THEN _on_complete(t2) ELSE t2

_on_tick(t) ==
    LET t1 == [t EXCEPT !.remaining_seconds = @ - 1]
        t2 == emit(t1, <<"tick", t1.remaining_seconds>>)
    IN  IF t2.remaining_seconds <= 0 THEN _on_complete(t2) ELSE t2

set_durations(t, focus_minutes, break_minutes) ==
    [t EXCEPT !.focus_duration = focus_minutes * 60,
              !.break_duration = break_minutes * 60]

is_running(t) == t.state \in {"focus", "break"}

is_focus(t) == t.state = "focus"

is_paused(t) == t.state = "paused"

----------------------------------------------------------------------------
(* MainWindow: the fields its handlers use.  0 is None for an id.  The     *)
(* three buttons hold isEnabled(): a disabled button sends no click.       *)

MainWindow ==
    [ current_session_id |-> 0,
      current_task_id |-> 0,
      collect_grapes_on_complete |-> TRUE,
      start_button |-> TRUE,
      pause_button |-> FALSE,
      stop_button |-> FALSE ]

\* What a complete_session that took the extra argument and ignored it would do.
call_ignoring_collect_grape(d, session_id, collect_grape, day) ==
    [ store |-> complete_session(d, session_id, day), raised |-> "", committed |-> TRUE ]

\* self.db.complete_session(session_id, collect_grape): complete_session(self,
\* session_id) takes no second argument, so Python raises TypeError when it binds
\* the call and no statement of the method runs
call_complete_session(d, session_id, collect_grape, day) ==
    [ store |-> d, raised |-> "TypeError", committed |-> FALSE ]

\* no call made
NoCall(d) == [ store |-> d, raised |-> "", committed |-> FALSE ]

\* _on_focus_completed, the slot of focus_completed, on the store d and the window w:
\* an exception ends the slot where it is raised (PySide prints it and the emit
\* returns)
_on_focus_completed(d, w, day) ==
    LET r == IF w.current_session_id # 0
             THEN call_complete_session(d, w.current_session_id,
                                        w.collect_grapes_on_complete, day)
             ELSE NoCall(d)
    IN  IF r.raised # ""
        THEN [ store |-> r.store, committed |-> r.committed, win |-> w,
               raised |-> r.raised, awarded |-> <<>>,
               completed |-> FALSE ]
        ELSE LET collect == w.collect_grapes_on_complete
                 awarded == IF collect THEN BadgeRowIds(new_badges(r.store, day))
                            ELSE <<>>
                 d2 == IF collect THEN check_and_award_badges(r.store, day) ELSE r.store
             IN  [ store |-> d2,
                   committed |-> r.committed \/ awarded # <<>>,
                   win |-> [w EXCEPT !.start_button = FALSE, !.pause_button = TRUE,
                                     !.stop_button = TRUE],
                   raised |-> "", awarded |-> awarded,
                   completed |-> w.current_session_id # 0 ]

\* _on_break_completed, the slot of break_completed
_on_break_completed(w) ==
    [w EXCEPT !.start_button = TRUE, !.pause_button = FALSE, !.stop_button = FALSE,
              !.current_session_id = 0, !.collect_grapes_on_complete = TRUE]

----------------------------------------------------------------------------
(* The state machine: one action per call on the Database object.           *)

Titles == {"write report"}

Durations == {25}

NoBadges == <<>>

Call(op, sid, collect, raised, awarded) ==
    [op |-> op, sid |-> sid, collect |-> collect, raised |-> raised, awarded |-> awarded]

\* MainWindow(): Database() on a new file and PomodoroTimer(); the clock shows Epoch
Init ==
    /\ db = EmptyStore
    /\ disk = EmptyStore
    /\ atomic = EmptyStore
    /\ today = Epoch
    /\ last = Call("init", 0, "absent", "", NoBadges)
    /\ nDone = 0
    /\ faults = 0
    /\ now = 0
    /\ timer = PomodoroTimer(25, 5)
    /\ win = MainWindow
    /\ phase = "idle"

\* db.add_task(title); it commits and returns lastrowid
AddTask(title) ==
    /\ db.task_seq < MaxTasks
    /\ db' = add_task(db, title)
    /\ disk' = db'
    /\ atomic' = add_task(atomic, title)
    /\ last' = Call("add_task", db'.task_seq, "absent", "", NoBadges)
    /\ UNCHANGED <<today, nDone, faults, now, timer, win, phase>>

\* db.complete_task(task_id); it commits
CompleteTask(task_id) ==
    /\ db' = complete_task(db, task_id)
    /\ disk' = db'
    /\ atomic' = complete_task(atomic, task_id)
    /\ last' = Call("complete_task", 0, "absent", "", NoBadges)
    /\ UNCHANGED <<today, nDone, faults, now, timer, win, phase>>

\* db.delete_task(task_id); it commits
DeleteTask(task_id) ==
    /\ db' = delete_task(db, task_id)
    /\ disk' = db'
    /\ atomic' = delete_task(atomic, task_id)
    /\ last' = Call("delete_task", 0, "absent", "", NoBadges)
    /\ UNCHANGED <<today, nDone, faults, now, timer, win, phase>>

\* db.start_session(task_id, duration); it commits.  task_id 0 is None.
StartSession(task_id, duration) ==
    /\ db' = start_session(db, task_id, duration)
    /\ disk' = db'
    /\ atomic' = start_session(atomic, task_id, duration)
    /\ last' = Call("start_session", Len(db'.focus_sessions), "absent", "", NoBadges)
    /\ UNCHANGED <<today, nDone, faults, now, timer, win, phase>>

\* db.complete_session(session_id) returning normally: every write, then the commit
CompleteSession(session_id, cap) ==
    /\ get_profile(db).total_grapes < cap
    /\ db' = complete_session(db, session_id, today)
    /\ disk' = db'
    /\ atomic' = complete_session(atomic, session_id, today)
    /\ nDone' = nDone + 1
    /\ last' = Call("complete_session", session_id, "absent", "", NoBadges)
    /\ UNCHANGED <<today, faults, now, timer, win, phase>>

\* db.complete_session(session_id) raising after its n-th write (a storage error in
\* the next statement or in the commit): nothing rolls the open transaction back
CompleteSessionRaises(session_id, n, cap) ==
    /\ get_profile(db).total_grapes < cap
    /\ faults < MaxFaults
    /\ db' = complete_session_writes(db, session_id, today, n)
    /\ faults' = faults + 1
    /\ last' = Call("complete_session", session_id, "absent", "Error", NoBadges)
    /\ UNCHANGED <<disk, atomic, today, nDone, now, timer, win, phase>>

\* db.complete_session(session_id, collect_grape), the call MainWindow makes:
\* Database.complete_session takes session_id only, so the call raises TypeError
\* before the method body runs
CompleteSessionCollect(session_id, collect_grape) ==
    /\ last' = Call("complete_session", session_id,
                    IF collect_grape THEN "true" ELSE "false", "TypeError", NoBadges)
    /\ UNCHANGED <<db, disk, atomic, today, nDone, faults, now, timer, win, phase>>

\* db.check_and_award_badges(); it commits only when it awarded something
CheckAndAwardBadges ==
    LET awarded == BadgeRowIds(new_badges(db, today)) IN
    /\ db' = check_and_award_badges(db, today)
    /\ disk' = IF awarded # NoBadges THEN db' ELSE disk
    /\ atomic' = check_and_award_badges(atomic, today)
    /\ last' = Call("check_and_award_badges", 0, "absent", "", awarded)
    /\ UNCHANGED <<today, nDone, faults, now, timer, win, phase>>

\* The process ends and Database() opens the same file again: the uncommitted
\* writes of the old connection are gone, and __init__ runs on the committed rows
Restart ==
    /\ db' = __init__(disk)
    /\ disk' = db'
    /\ atomic' = __init__(atomic)
    /\ last' = Call("restart", 0, "absent", "", NoBadges)
    /\ UNCHANGED <<today, nDone, faults, now, timer, win, phase>>

\* Midnight passes: the system clock shows the next calendar day
Midnight(days) ==
    /\ NextDate(today) \in days
    /\ today' = NextDate(today)
    /\ last' = Call("midnight", 0, "absent", "", NoBadges)
    /\ UNCHANGED <<db, disk, atomic, nDone, faults, now, timer, win, phase>>

\* The system clock is set by hand to another date, earlier or later
ClockChange(days) ==
    /\ today' \in days \ {today}
    /\ last' = Call("clock", 0, "absent", "", NoBadges)
    /\ UNCHANGED <<db, disk, atomic, nDone, faults, now, timer, win, phase>>

TaskIds == 1..(MaxTasks + 1)

\* the sessions that are not finalized
OpenSessions(d) == { i \in DOMAIN d.focus_sessions : ~d.focus_sessions[i].completed }

\* Every call on one calendar day, in any order, the calls that raise included.
Next ==
    \/ \E title \in Titles : AddTask(title)
    \/ \E task_id \in TaskIds : CompleteTask(task_id)
    \/ \E task_id \in TaskIds : DeleteTask(task_id)
    \/ \E task_id \in {0} \cup DOMAIN db.tasks, duration \in Durations :
          Len(db.focus_sessions) < MaxSessions /\ StartSession(task_id, duration)
    \/ \E session_id \in DOMAIN db.focus_sessions :
          CompleteSession(session_id, MaxGrapes)
    \/ \E session_id \in DOMAIN db.focus_sessions, n \in 1..5 :
          CompleteSessionRaises(session_id, n, MaxGrapes)
    \/ \E session_id \in DOMAIN db.focus_sessions, collect_grape \in BOOLEAN :
          CompleteSessionCollect(session_id, collect_grape)
    \/ CheckAndAwardBadges
    \/ Restart

Spec == Init /\ [][Next]_vars

\* One session after the other, each started and then completed: what every ledger
\* specification below does with sessions.
StartOne == \E duration \in Durations : OpenSessions(db) = {} /\ StartSession(0, duration)

CompleteOpen(cap) == \E session_id \in OpenSessions(db) : CompleteSession(session_id, cap)

\* Sessions on one calendar day, far enough for a box, with badge passes and restarts.
NextLedger ==
    \/ StartOne
    \/ CompleteOpen(MaxLedgerGrapes)
    \/ CheckAndAwardBadges
    \/ Restart

SpecLedger == Init /\ [][NextLedger]_vars

\* Sessions while the clock is set freely over a few days, backwards too.
NextStreak ==
    \/ ClockChange(Days(MaxDay))
    \/ StartOne
    \/ CompleteOpen(MaxStreakGrapes)

SpecStreak == Init /\ [][NextStreak]_vars

\* Sessions and badge passes while the days pass.
NextBadgeDays ==
    \/ Midnight(Days(MaxBadgeDay))
    \/ StartOne
    \/ CompleteOpen(MaxBadgeGrapes)
    \/ CheckAndAwardBadges

SpecBadgeDays == Init /\ [][NextBadgeDays]_vars

\* complete_session called with any id: of an open session, of a finalized one, and
\* of no session at all
SessionIds == 1..(MaxSessions + 1)

NextSessions ==
    \/ \E duration \in Durations :
          Len(db.focus_sessions) < MaxSessions /\ StartSession(0, duration)
    \/ \E session_id \in SessionIds : CompleteSession(session_id, MaxGrapes)
    \/ CheckAndAwardBadges
    \/ Restart
    \/ Midnight(Days(MaxBadgeDay))
    \/ \E title \in Titles : AddTask(title)
    \/ \E task_id \in TaskIds : CompleteTask(task_id)
    \/ \E task_id \in TaskIds : DeleteTask(task_id)

SpecSessions == Init /\ [][NextSessions]_vars

----------------------------------------------------------------------------
(* The window's handlers: one action per click, per accepted settings       *)
(* dialog, and per timeout of the Qt timer with the slots it runs.          *)

\* what a timeout leaves in progress: _on_complete calls start_break() after
\* focus_completed, and nothing after break_completed
PhaseAfterTick(t) ==
    IF Emitted(t, "focus_completed") THEN "break"
    ELSE IF Emitted(t, "break_completed") THEN "idle"
    ELSE phase

\* the focus and break minutes entered in the settings dialog
FocusMinutes == {1, 15}

BreakMinutes == {1}

Replies == {"Yes", "No"}

\* the user clicks on a running countdown only in the first MaxWait seconds of a phase
Reacts ==
    is_running(timer) => timer.total_seconds - timer.remaining_seconds <= MaxWait

\* _on_start, a click on the start button; reply answers the warning shown for a
\* focus time below 15 minutes
OnStart(reply) ==
    /\ win.start_button
    /\ Reacts
    /\ IF is_paused(timer)
       THEN /\ timer' = resume(called(timer))
            /\ win' = [win EXCEPT !.start_button = FALSE, !.pause_button = TRUE,
                                  !.stop_button = TRUE]
            /\ last' = Call("_on_start", win.current_session_id, "absent", "", NoBadges)
            /\ UNCHANGED <<db, disk, atomic, phase>>
       ELSE LET duration_minutes == timer.focus_duration \div 60
                collect_grapes == ~(duration_minutes < 15)
            IN  IF duration_minutes < 15 /\ reply = "No"
                THEN /\ timer' = called(timer)
                     /\ last' = Call("_on_start", 0, "absent", "", NoBadges)
                     /\ UNCHANGED <<db, disk, atomic, win, phase>>
                ELSE /\ Len(db.focus_sessions) < MaxAppSessions
                     /\ timer' = start_focus(called(timer))
                     /\ phase' = "focus"
                     /\ db' = start_session(db, win.current_task_id, duration_minutes)
                     /\ disk' = db'
                     /\ atomic' = start_session(atomic, win.current_task_id,
                                                duration_minutes)
                     /\ win' = [win EXCEPT
                                  !.current_session_id = Len(db'.focus_sessions),
                                  !.collect_grapes_on_complete = collect_grapes,
                                  !.start_button = FALSE, !.pause_button = TRUE,
                                  !.stop_button = TRUE]
                     /\ last' = Call("_on_start", Len(db'.focus_sessions), "absent", "",
                                     NoBadges)
    /\ UNCHANGED <<today, nDone, faults, now>>

\* _on_pause, a click on the pause button
OnPause ==
    /\ win.pause_button
    /\ Reacts
    /\ timer' = pause(called(timer))
    /\ win' = [win EXCEPT !.start_button = TRUE, !.pause_button = FALSE]
    /\ last' = Call("_on_pause", win.current_session_id, "absent", "", NoBadges)
    /\ UNCHANGED <<db, disk, atomic, today, nDone, faults, now, phase>>

\* _on_stop, a click on the stop button; reply answers the confirmation.  An
\* exception ends the handler where it is raised.
OnStop(reply) ==
    /\ win.stop_button
    /\ Reacts
    /\ LET asked == is_running(timer) \/ is_paused(timer)
           finalize == asked /\ win.current_session_id # 0 /\ is_focus(timer)
           r == IF finalize
                THEN call_complete_session(db, win.current_session_id, FALSE, today)
                ELSE NoCall(db)
           ra == IF finalize
                 THEN call_complete_session(atomic, win.current_session_id, FALSE, today)
                 ELSE NoCall(atomic)
       IN  IF asked /\ reply = "No"
           THEN /\ timer' = called(timer)
                /\ last' = Call("_on_stop", win.current_session_id, "absent", "", NoBadges)
                /\ UNCHANGED <<db, disk, atomic, win, nDone, phase>>
           ELSE /\ db' = r.store
                /\ disk' = IF r.committed THEN r.store ELSE disk
                /\ atomic' = ra.store
                /\ last' = Call("_on_stop", win.current_session_id,
                                IF finalize THEN "false" ELSE "absent", r.raised, NoBadges)
                /\ IF r.raised # ""
                   THEN /\ timer' = called(timer)
                        /\ UNCHANGED <<win, nDone, phase>>
                   ELSE /\ timer' = stop(called(timer))
                        /\ phase' = "idle"
                        /\ win' = [win EXCEPT !.current_session_id = 0,
                                              !.current_task_id = 0,
                                              !.start_button = TRUE,
                                              !.pause_button = FALSE,
                                              !.stop_button = FALSE]
                        /\ nDone' = IF finalize THEN nDone + 1 ELSE nDone
    /\ UNCHANGED <<today, faults, now>>

\* The Qt timer times out: _on_tick, and through _on_complete the slot of the signal
\* it emits
Tick ==
    /\ timer.qt_timer
    /\ timer' = _on_tick(called(timer))
    /\ phase' = PhaseAfterTick(timer')
    /\ IF Emitted(timer', "focus_completed")
       THEN LET r == _on_focus_completed(db, win, today)
                ra == _on_focus_completed(atomic, win, today)
            IN  /\ db' = r.store
                /\ disk' = IF r.committed THEN r.store ELSE disk
                /\ atomic' = ra.store
                /\ win' = r.win
                /\ nDone' = IF r.completed THEN nDone + 1 ELSE nDone
                /\ last' = Call("_on_focus_completed", win.current_session_id,
                                IF win.current_session_id = 0 THEN "absent"
                                ELSE IF win.collect_grapes_on_complete THEN "true"
                                ELSE "false",
                                r.raised, r.awarded)
       ELSE IF Emitted(timer', "break_completed")
       THEN /\ win' = _on_break_completed(win)
            /\ last' = Call("_on_break_completed", win.current_session_id, "absent", "",
                            NoBadges)
            /\ UNCHANGED <<db, disk, atomic, nDone>>
       ELSE /\ last' = Call("_on_tick", win.current_session_id, "absent", "", NoBadges)
            /\ UNCHANGED <<db, disk, atomic, win, nDone>>
    /\ UNCHANGED <<today, faults, now>>

\* _show_settings with the dialog accepted and the language left as it is: refused
\* while the countdown runs, so open while it is idle or paused
ShowSettings(focus, break_time) ==
    /\ ~is_running(timer)
    /\ timer' = set_durations(called(timer), focus, break_time)
    /\ last' = Call("_show_settings", win.current_session_id, "absent", "", NoBadges)
    /\ UNCHANGED <<db, disk, atomic, win, today, nDone, faults, now, phase>>

NextApp ==
    \/ \E reply \in Replies : OnStart(reply)
    \/ OnPause
    \/ \E reply \in Replies : OnStop(reply)
    \/ Tick
    \/ \E focus \in FocusMinutes, break_time \in BreakMinutes :
          ShowSettings(focus, break_time)

SpecApp == Init /\ [][NextApp]_vars

----------------------------------------------------------------------------
(* The task table alone, while the clock advances.  A title here is the     *)
(* sequence of its characters.                                              *)

TaskTitles == { <<>>, <<" ", " ">>, <<"a">>, <<" ", "a">> }

\* a second passes
TimePasses ==
    /\ now < MaxNow
    /\ now' = now + 1
    /\ last' = Call("clock", 0, "absent", "", NoBadges)
    /\ UNCHANGED <<db, disk, atomic, today, nDone, faults, timer, win, phase>>

NextTasks ==
    \/ \E title \in TaskTitles : AddTask(title)
    \/ \E task_id \in TaskIds : CompleteTask(task_id)
    \/ \E task_id \in TaskIds : DeleteTask(task_id)
    \/ TimePasses

SpecTasks == Init /\ [][NextTasks]_vars

----------------------------------------------------------------------------
(* The timer alone: the methods of PomodoroTimer called in any order, as    *)
(* any holder of the object may call them, and the Qt timer's timeouts.     *)

TimerCall(op) ==
    /\ last' = Call(op, 0, "absent", "", NoBadges)
    /\ phase' = CASE op = "start_focus" -> "focus"
                  [] op = "start_break" -> "break"
                  [] op = "stop" -> "idle"
                  [] op = "_on_tick" -> PhaseAfterTick(timer')
                  [] OTHER -> phase
    /\ UNCHANGED <<db, disk, atomic, today, nDone, faults, now, win>>

TimerStartFocus == timer' = start_focus(called(timer)) /\ TimerCall("start_focus")

TimerStartBreak == timer' = start_break(called(timer)) /\ TimerCall("start_break")

TimerPause == timer' = pause(called(timer)) /\ TimerCall("pause")

TimerResume == timer' = resume(called(timer)) /\ TimerCall("resume")

TimerStop == timer' = stop(called(timer)) /\ TimerCall("stop")

TimerSetDurations(focus_minutes, break_minutes) ==
    /\ timer' = set_durations(called(timer), focus_minutes, break_minutes)
    /\ TimerCall("set_durations")

\* qt_timer.timeout, connected to _on_tick
TimerTick ==
    /\ timer.qt_timer
    /\ timer' = _on_tick(called(timer))
    /\ TimerCall("_on_tick")

NextTimer ==
    \/ TimerStartFocus
    \/ TimerStartBreak
    \/ TimerPause
    \/ TimerResume
    \/ TimerStop
    \/ \E focus_minutes \in FocusMinutes, break_minutes \in BreakMinutes :
          TimerSetDurations(focus_minutes, break_minutes)
    \/ TimerTick

SpecTimer == Init /\ [][NextTimer]_vars

----------------------------------------------------------------------------
(* A countdown left alone: started on an idle timer and never paused or     *)
(* stopped.  The Qt timer, once started, times out every second until it is *)
(* stopped, which is the fairness of the timeout.                           *)

\* start_focus() on an idle timer
TimerStartFocusIdle == timer.state = "idle" /\ TimerStartFocus

NextCountdown ==
    \/ TimerStartFocusIdle
    \/ \E focus_minutes \in FocusMinutes, break_minutes \in BreakMinutes :
          TimerSetDurations(focus_minutes, break_minutes)
    \/ TimerTick

SpecCountdown == Init /\ [][NextCountdown]_vars /\ WF_vars(TimerTick)

----------------------------------------------------------------------------
(* _add_xp alone, called with amounts other than the 10 of a grape: below a  *)
(* requirement, exactly one, and enough for several levels at once.         *)

XpAmounts == {0, 10, 95, 100, 250, 475}

\* the record of a call of _add_xp(amount)
XpCall(amount) ==
    [op |-> "_add_xp", sid |-> 0, collect |-> "absent", raised |-> "",
     awarded |-> NoBadges, amount |-> amount]

\* self._add_xp(amount): one UPDATE on the connection, no commit
AddXp(amount) ==
    /\ get_profile(db).level <= MaxXpLevel
    /\ db' = _add_xp(db, amount)
    /\ last' = XpCall(amount)
    /\ UNCHANGED <<disk, atomic, today, nDone, faults, now, timer, win, phase>>

NextXp == \E amount \in XpAmounts : AddXp(amount)

SpecXp == Init /\ [][NextXp]_vars

----------------------------------------------------------------------------
(* Properties.                                                              *)

Completed == last.op = "complete_session" /\ last.raised = ""

JustCompleted == last'.op = "complete_session" /\ last'.raised = ""

BadgeSet(d) == { d.user_badges[i] : i \in 1..Len(d.user_badges) }

\* C1: from a fresh profile, after N complete_session calls the profile is exactly
\* total_grapes = N, total_bunches = N div 10, current_bunch_grapes = N mod 10,
\* total_boxes = N div 100, current_box_bunches = (N div 10) mod 10.
C1_LedgerAfterN ==
    LET profile == get_profile(db) IN
    /\ profile.total_grapes = nDone
    /\ profile.total_bunches = nDone \div 10
    /\ profile.current_bunch_grapes = nDone % 10
    /\ profile.total_boxes = nDone \div 100
    /\ profile.current_box_bunches = (nDone \div 10) % 10

\* C1's case: the 100th completion, where total_boxes first becomes 1.
C1_Witness ==
    Completed /\ nDone = 100 /\ get_profile(db).total_boxes = 1

\* C2: in every reachable state, committed or not, both fill counters are in 0..9.
C2_FillBelowTen ==
    \A d \in {db, disk} :
        /\ get_profile(d).current_bunch_grapes \in 0..9
        /\ get_profile(d).current_box_bunches \in 0..9

\* C2's case: a completion that rolled a bunch over into a box that was at 9.
C2_Witness ==
    /\ Completed
    /\ get_profile(db).current_bunch_grapes = 0
    /\ get_profile(db).current_box_bunches = 0
    /\ get_profile(db).total_bunches = 10

\* C3: no step lowers total_grapes, total_bunches or total_boxes, in the profile the
\* connection reads and in the committed one.
C3_TotalsNeverDecrease ==
    [][ /\ get_profile(db').total_grapes >= get_profile(db).total_grapes
        /\ get_profile(db').total_bunches >= get_profile(db).total_bunches
        /\ get_profile(db').total_boxes >= get_profile(db).total_boxes
        /\ get_profile(disk').total_grapes >= get_profile(disk).total_grapes
        /\ get_profile(disk').total_bunches >= get_profile(disk).total_bunches
        /\ get_profile(disk').total_boxes >= get_profile(disk).total_boxes ]_vars

\* C3's case: all three totals have grown, and other operations ran after that.
C3_Witness ==
    /\ get_profile(db).total_boxes = 1
    /\ get_profile(db).total_bunches = 10
    /\ last.op \in {"restart", "check_and_award_badges", "start_session"}

\* C4: a completion changes today's grape_stats row by grapes_earned + 1,
\* bunches_completed + 1 exactly when current_bunch_grapes went 9 -> 0, and
\* boxes_completed + 1 exactly when current_box_bunches went 9 -> 0.
C4_DailyStatDelta ==
    [][ JustCompleted =>
        LET before == get_today_stats(db, today)
            after == get_today_stats(db', today)
            bunch == /\ get_profile(db).current_bunch_grapes = 9
                     /\ get_profile(db').current_bunch_grapes = 0
            box == /\ get_profile(db).current_box_bunches = 9
                   /\ get_profile(db').current_box_bunches = 0
        IN  /\ after.grapes_earned = before.grapes_earned + 1
            /\ after.bunches_completed =
                  before.bunches_completed + (IF bunch THEN 1 ELSE 0)
            /\ after.boxes_completed =
                  before.boxes_completed + (IF box THEN 1 ELSE 0) ]_vars

\* C5: complete_session(session_id, collect_grape = False) leaves the session row
\* completed with its end timestamp set, and the profile and every grape_stats row
\* as they were.
C5_FinalizeWithoutReward ==
    [][ (last'.op = "complete_session" /\ last'.collect = "false") =>
        /\ db'.focus_sessions[last'.sid].completed
        /\ db'.focus_sessions[last'.sid].ended_at # NULL
        /\ db'.user_profile = db.user_profile
        /\ db'.grape_stats = db.grape_stats ]_vars

\* C6: the committed store holds all the writes of every complete_session that
\* returned and none of the writes of one that raised, whatever commits later.
C6_AllOrNothing == disk = atomic

\* The calendar date an ISO string names, and the day before a date.
DateOf(s) == [year |-> s[1], month |-> s[2], day |-> s[3]]

IsDayBefore(s, day) == NextDate(DateOf(s)) = day

\* C7: a completion sets last_focus_date to today and streak_days to 1 without a
\* prior date, leaves it with the prior date today, adds 1 with the prior date
\* yesterday, and sets it to 1 with any other prior date, a later one too.
C7_StreakUpdate ==
    [][ JustCompleted =>
        LET prior == get_profile(db).last_focus_date
            streak == get_profile(db).streak_days
        IN  /\ get_profile(db').last_focus_date = <<today.year, today.month, today.day>>
            /\ get_profile(db').streak_days =
                  IF prior = NULL THEN 1
                  ELSE IF DateOf(prior) = today THEN streak
                  ELSE IF IsDayBefore(prior, today) THEN streak + 1
                  ELSE 1 ]_vars

\* C7's case: completions on D, D+1 and D+2 give a streak of 3.
C7_Witness ==
    Completed /\ get_profile(db).streak_days = 3

\* floor(100 * 1.5^(l-1)): the largest r with r * 2^(l-1) <= 100 * 3^(l-1)
Requirement(l) ==
    CHOOSE r \in 100..(100 * Pow(2, l - 1)) :
        /\ r * Pow(2, l - 1) <= 100 * Pow(3, l - 1)
        /\ (r + 1) * Pow(2, l - 1) > 100 * Pow(3, l - 1)

\* The requirements of the levels below L, summed.
RECURSIVE Cumulative(_)
Cumulative(L) == IF L = 1 THEN 0 ELSE Cumulative(L - 1) + Requirement(L - 1)

\* C8: from level 1 and xp 0, after N completions the level is the largest L whose
\* cumulative requirement is at most 10 * N, and xp is 10 * N less that sum.
C8_LevelAfterN ==
    LET profile == get_profile(db) IN
    /\ profile.level >= 1
    /\ Cumulative(profile.level) <= 10 * nDone
    /\ 10 * nDone < Cumulative(profile.level + 1)
    /\ profile.xp = 10 * nDone - Cumulative(profile.level)

\* C8's case: the 25th completion, the second level-up.
C8_Witness ==
    /\ Completed /\ nDone = 25
    /\ get_profile(db).level = 3 /\ get_profile(db).xp = 0

\* C9: right after check_and_award_badges, another call awards nothing and inserts
\* no user_badges row.
C9_BadgePassIdempotent ==
    last.op = "check_and_award_badges" =>
        /\ new_badges(db, today) = <<>>
        /\ check_and_award_badges(db, today).user_badges = db.user_badges

\* C9's case: the first pass awarded several badges.
C9_Witness ==
    last.op = "check_and_award_badges" /\ Len(last.awarded) >= 2

NoRepeat(seq) == \A i, j \in 1..Len(seq) : seq[i] = seq[j] => i = j

\* C10: each badge id is in user_badges at most once, and no step removes an
\* awarded badge id, in the connection's view and in the committed store.
C10_BadgesOnceAndKept ==
    [][ /\ NoRepeat(db'.user_badges)
        /\ NoRepeat(disk'.user_badges)
        /\ BadgeSet(db) \subseteq BadgeSet(db')
        /\ BadgeSet(disk) \subseteq BadgeSet(disk') ]_vars

\* C10's case: the daily badge is held on a new day, whose grape count is back
\* at 0, after a badge pass on that day.
C10_Witness ==
    /\ last.op = "check_and_award_badges"
    /\ 6 \in BadgeSet(db)
    /\ get_today_stats(db, today).grapes_earned = 0

\* The stat a condition kind compares with its threshold, or none for a kind the
\* evaluator has no predicate for.
HasPredicate(kind) ==
    kind \in {"grapes", "bunches", "boxes", "streak", "daily_grapes", "level",
              "tasks_completed", "total_hours"}

StatOf(d, day, kind) ==
    CASE kind = "grapes" -> d.user_profile[1].total_grapes
      [] kind = "bunches" -> d.user_profile[1].total_bunches
      [] kind = "boxes" -> d.user_profile[1].total_boxes
      [] kind = "streak" -> d.user_profile[1].streak_days
      [] kind = "level" -> d.user_profile[1].level
      [] kind = "daily_grapes" ->
            IF <<day.year, day.month, day.day>> \in DOMAIN d.grape_stats
            THEN d.grape_stats[<<day.year, day.month, day.day>>].grapes_earned ELSE 0
      [] kind = "tasks_completed" ->
            Cardinality({ i \in DOMAIN d.tasks : d.tasks[i].completed })
      [] kind = "total_hours" -> d.user_profile[1].total_focus_minutes \div 60

\* The badge ids not yet awarded in d whose predicate is true in d.
Due(d, day) ==
    { d.badge_definitions[i].id : i \in
        { j \in 1..Len(d.badge_definitions) :
            LET bd == d.badge_definitions[j] IN
            /\ bd.id \notin BadgeSet(d)
            /\ HasPredicate(bd.condition_type)
            /\ StatOf(d, day, bd.condition_type) >= bd.condition_value } }

\* C11: one check_and_award_badges call inserts one row for exactly the badges that
\* were not awarded and whose predicate held in the state at the start of the call,
\* and returns exactly those, each once, whatever else the pass awards.
C11_AwardsExactlyDue ==
    [][ last'.op = "check_and_award_badges" =>
        LET due == Due(db, today) IN
        /\ { last'.awarded[i] : i \in 1..Len(last'.awarded) } = due
        /\ Len(last'.awarded) = Cardinality(due)
        /\ BadgeSet(db') = BadgeSet(db) \cup due
        /\ Len(db'.user_badges) = Len(db.user_badges) + Cardinality(due) ]_vars

\* C11's case: a pass that awards two badges of different categories and skips one
\* that holds but was awarded before.
C11_Witness ==
    /\ last.op = "check_and_award_badges"
    /\ last.awarded = <<2, 6>>
    /\ 1 \in BadgeSet(db)

AwardedNow == { last.awarded[i] : i \in 1..Len(last.awarded) }

\* a countdown of a focus phase reached zero in this step, for a session the window
\* started and marked as collecting the reward
RewardCompletion ==
    /\ Emitted(timer', "focus_completed")
    /\ win.current_session_id # 0
    /\ win.collect_grapes_on_complete

C13_OneOpenSession ==
    Cardinality({ i \in DOMAIN db.focus_sessions : ~db.focus_sessions[i].completed }) <= 1

C15_RewardOnlyOnQualifyingCompletion ==
    [][ ( \/ db'.user_profile # db.user_profile
          \/ db'.grape_stats # db.grape_stats
          \/ disk'.user_profile # disk.user_profile
          \/ disk'.grape_stats # disk.grape_stats ) =>
        /\ Emitted(timer', "focus_completed")
        /\ win.current_session_id \in DOMAIN db.focus_sessions
        /\ db.focus_sessions[win.current_session_id].duration_minutes >= 15 ]_vars

\* C15's case: the countdown of a session started below 15 minutes has reached
\* zero, after a session was stopped early, and nothing was granted.
C15_Witness ==
    /\ last.op = "_on_focus_completed"
    /\ last.sid = 2
    /\ db.focus_sessions[2].duration_minutes < 15
    /\ db.user_profile[1].total_grapes = 0

\* C19: a tick that does not end the countdown, a pause and a resume leave the
\* store as it was, committed or not; the Qt timer is not active while the timer is
\* paused or idle, and from paused or idle remaining_seconds changes only by a
\* stop or a start.
C19_TimerEventsFrame ==
    /\ [](timer.state \in {"paused", "idle"} => ~timer.qt_timer)
    /\ [][ /\ ( \/ last'.op \in {"_on_tick", "_on_pause"}
                \/ (last'.op = "_on_start" /\ timer.state = "paused") ) =>
              (db' = db /\ disk' = disk)
           /\ ( /\ timer.state \in {"paused", "idle"}
                /\ timer'.remaining_seconds # timer.remaining_seconds ) =>
              last'.op \in {"_on_stop", "_on_start"} ]_vars

\* C19's case: a focus countdown paused after a tick, with its session open.
C19_Witness ==
    /\ last.op = "_on_pause"
    /\ timer.state = "paused"
    /\ timer.remaining_seconds < timer.total_seconds
    /\ win.current_session_id = 1
    /\ ~db.focus_sessions[1].completed

\* a pause or a resume that does not apply: pause outside focus and break, resume
\* outside paused
NotApplicable ==
    \/ (last'.op = "pause" /\ timer.state \notin {"focus", "break"})
    \/ (last'.op = "resume" /\ timer.state # "paused")

TimerKept ==
    /\ timer'.state = timer.state
    /\ timer'.remaining_seconds = timer.remaining_seconds
    /\ timer'.total_seconds = timer.total_seconds
    /\ timer'.qt_timer = timer.qt_timer
    /\ ~Emitted(timer', "state_changed")

\* C20: a pause when the timer is not in focus or break, and a resume when it is
\* not paused, raise a state error to the caller and change nothing: state,
\* remaining_seconds and total_seconds stay and no state_changed is emitted.
C20_NotApplicableIsStateError ==
    [][ NotApplicable => (last'.raised = "StateError" /\ TimerKept) ]_vars

\* C20 as the code has it: such a pause or resume returns normally, raising nothing,
\* and changes nothing: state, remaining_seconds and total_seconds stay, the Qt timer
\* stays as it was, and no signal at all is emitted.
C20_NotApplicableIsNoOp ==
    [][ NotApplicable =>
        (last'.raised = "" /\ TimerKept /\ timer'.signals = <<>>) ]_vars

\* C20's case: a resume while a focus countdown is running, part of it gone.
C20_Witness ==
    /\ last.op = "resume"
    /\ timer.state = "focus"
    /\ timer.remaining_seconds = timer.total_seconds - 1
    /\ timer.qt_timer
    /\ timer.signals = <<>>

\* C16: complete_task on a task that is already completed, or on an unknown id,
\* changes nothing, the completed timestamp least of all; no step changes the row
\* of a completed task (a delete may remove it).
C16_CompleteTaskIdempotent ==
    [][ /\ \A i \in DOMAIN db.tasks \cap DOMAIN db'.tasks :
              db.tasks[i].completed => db'.tasks[i] = db.tasks[i]
        /\ last'.op = "complete_task" =>
              /\ DOMAIN db'.tasks = DOMAIN db.tasks
              /\ \A i \in DOMAIN db.tasks :
                    db'.tasks[i].completed = db.tasks[i].completed
                       => db'.tasks[i] = db.tasks[i] ]_vars

IsBlank(title) == \A i \in 1..Len(title) : title[i] \in {" ", "\t", "\n"}

\* C17: add_task either fails with a validation error and leaves the task table as
\* it was, which it does for an empty or whitespace-only title, or adds exactly one
\* task, whose title is not blank, with completed = false and a new id, which it
\* returns.
C17_AddTaskValidates ==
    [][ last'.op = "add_task" =>
        LET added == DOMAIN db'.tasks \ DOMAIN db.tasks IN
        IF last'.raised = "ValidationError"
        THEN db'.tasks = db.tasks
        ELSE /\ Cardinality(added) = 1
             /\ \A i \in added :
                   /\ ~IsBlank(db'.tasks[i].title)
                   /\ ~db'.tasks[i].completed
                   /\ last'.sid = i
                   /\ i > db.task_seq
             /\ \A i \in DOMAIN db.tasks : db'.tasks[i] = db.tasks[i] ]_vars

\* the catalog table holds the 15 definitions, each once, as the source lists them
CatalogIsFixed(d) ==
    /\ Len(d.badge_definitions) = 15
    /\ \A i \in 1..Len(d.badge_definitions) :
          /\ d.badge_definitions[i].id = i
          /\ d.badge_definitions[i].name = badges[i].name
          /\ d.badge_definitions[i].category = badges[i].category
          /\ d.badge_definitions[i].condition_type = badges[i].condition_type
          /\ d.badge_definitions[i].condition_value = badges[i].condition_value
    /\ \A i, j \in 1..Len(d.badge_definitions) :
          d.badge_definitions[i].name = d.badge_definitions[j].name => i = j

\* C18: after any number of starts the catalog holds exactly the 15 definitions and
\* there is exactly one profile row; a start on an existing store leaves the
\* profile's values, the awarded badges and everything else committed as they were.
C18_InitIdempotent ==
    /\ [](\A d \in {db, disk} : CatalogIsFixed(d) /\ Len(d.user_profile) = 1)
    /\ [][ last'.op = "restart" => (disk' = disk /\ db' = disk) ]_vars

\* C18's case: a start on a store that holds grapes, a level-up and awarded badges.
C18_Witness ==
    /\ last.op = "restart"
    /\ db.user_profile[1].level = 2
    /\ Len(db.user_badges) >= 3

\* C21: _add_xp(amount) leaves 0 <= xp < floor(100 * 1.5^(level-1)) for the stored
\* level, does not lower the level, and old xp + amount is new xp plus the summed
\* requirements of the levels passed in that call.
C21_AddXpDecomposes ==
    [][ last'.op = "_add_xp" =>
        LET old == get_profile(db)
            new == get_profile(db')
        IN  /\ 0 <= new.xp
            /\ new.xp < Requirement(new.level)
            /\ new.level >= old.level
            /\ old.xp + last'.amount =
                  new.xp + (Cumulative(new.level) - Cumulative(old.level)) ]_vars

\* C21's case: 250 xp on a level-1 profile without xp passes levels 1 and 2 (100
\* and 150) in one call; no other profile ends at level 3 without xp on 250.
C21_Witness ==
    /\ last.op = "_add_xp" /\ last.amount = 250
    /\ get_profile(db).level = 3 /\ get_profile(db).xp = 0

\* a call of resume() on a paused timer, made directly or by the start button
Resumes ==
    /\ timer.state = "paused"
    /\ last'.op \in {"resume", "_on_start"}

\* C22: resume puts a paused timer back in the phase pause() found it in, FOCUS
\* or BREAK, whatever the two durations are and whatever set_durations did while
\* it was paused.
C22_ResumeRestoresPhase ==
    [][ Resumes => timer'.state = phase ]_vars

\* how often the call that made the last step emitted a signal
Emissions(t, name) == Cardinality({ i \in 1..Len(t.signals) : t.signals[i][1] = name })

\* the countdown in progress reaches zero in this step
ReachesZero == last'.op = "_on_tick" /\ timer.remaining_seconds = 1

\* C23: a step emits focus_completed once when the countdown of a focus phase
\* reaches zero in it and not at all otherwise; the timer is then in BREAK with
\* remaining_seconds = break_duration; the countdown of a break phase reaching
\* zero emits break_completed once and leaves the timer in IDLE.
C23_FocusCompletedOncePerFocus ==
    [][ /\ Emissions(timer', "focus_completed") =
              IF phase = "focus" /\ ReachesZero THEN 1 ELSE 0
        /\ (phase = "focus" /\ ReachesZero) =>
              /\ timer'.state = "break"
              /\ timer'.remaining_seconds = timer'.break_duration
        /\ (phase = "break" /\ ReachesZero) =>
              /\ Emissions(timer', "break_completed") = 1
              /\ timer'.state = "idle" ]_vars

FinalizedSessions(d) == { i \in DOMAIN d.focus_sessions : d.focus_sessions[i].completed }

\* C24: in every reachable state total_grapes is at most the number of session
\* rows with completed = 1: complete_session on an id without a row, or on a
\* finalized session, grants nothing.
C24_GrapesWithinFinalized ==
    get_profile(db).total_grapes <= Cardinality(FinalizedSessions(db))

\* C25: a focus countdown that is not paused or stopped leads to focus_completed,
\* and that to break_completed with the timer in IDLE; break_completed comes only
\* at the end of the break that focus_completed started.
C25_CountdownEnds ==
    /\ (phase = "focus") ~> Emitted(timer, "focus_completed")
    /\ Emitted(timer, "focus_completed") ~>
          (Emitted(timer, "break_completed") /\ timer.state = "idle")
    /\ [][ Emitted(timer', "break_completed") => phase = "break" ]_vars

\* C25's case: a 15-minute focus and its break have both run out.
C25_Witness ==
    /\ Emitted(timer, "break_completed")
    /\ timer.state = "idle" /\ timer.focus_duration = 900
    /\ timer.remaining_seconds = 0

\* SELECT SUM(column) FROM grape_stats
RECURSIVE SumOver(_, _, _)
SumOver(rows, dates, column) ==
    IF dates = {} THEN 0
    ELSE LET date == CHOOSE date \in dates : TRUE
         IN  rows[date][column] + SumOver(rows, dates \ {date}, column)

DailySum(d, column) == SumOver(d.grape_stats, DOMAIN d.grape_stats, column)

\* C26: in every reachable state the grape_stats rows sum to the profile's totals:
\* grapes_earned to total_grapes, bunches_completed to total_bunches and
\* boxes_completed to total_boxes.
C26_DailySumsEqualTotals ==
    /\ DailySum(db, "grapes_earned") = get_profile(db).total_grapes
    /\ DailySum(db, "bunches_completed") = get_profile(db).total_bunches
    /\ DailySum(db, "boxes_completed") = get_profile(db).total_boxes

\* the ids of the catalog badges of some condition kinds
BadgesOfKind(d, kinds) ==
    { d.badge_definitions[i].id : i \in { j \in 1..Len(d.badge_definitions) :
                                            d.badge_definitions[j].condition_type \in kinds } }

\* the badge ids the last call returned as newly awarded
LastAwarded == { last.awarded[i] : i \in 1..Len(last.awarded) }

\* C27: total_focus_minutes is 0 in every reachable state, in the connection's view
\* and in the committed store, and the total_hours badge is never awarded.
C27_FocusMinutesStayZero ==
    /\ get_profile(db).total_focus_minutes = 0
    /\ get_profile(disk).total_focus_minutes = 0
    /\ BadgesOfKind(db, {"total_hours"}) \cap (BadgeSet(db) \cup LastAwarded) = {}

\* C27's case: a badge pass after several completed 25-minute sessions and a
\* completed task.
C27_Witness ==
    /\ last.op = "check_and_award_badges" /\ last.awarded # NoBadges
    /\ get_profile(db).total_grapes >= 2
    /\ FinalizedSessions(db) # {}
    /\ \E i \in DOMAIN db.tasks : db.tasks[i].completed
    /\ BadgesOfKind(db, {"total_hours"}) = {15}

\* the condition kinds of the catalog that check_and_award_badges has no branch for
NoPredicateKinds == {"monthly_days", "morning_sessions", "night_sessions"}

\* C28: the badges of the kinds monthly_days, morning_sessions and night_sessions
\* are in no state among the awarded badges, of the connection or committed, and
\* in no list of newly awarded badges.
C28_NoPredicateNeverAwarded ==
    BadgesOfKind(db, NoPredicateKinds)
        \cap (BadgeSet(db) \cup BadgeSet(disk) \cup LastAwarded) = {}

\* C28's case: a pass that awards, after more finalized sessions than the
\* threshold 10 of the two time-of-day badges.
C28_Witness ==
    /\ last.op = "check_and_award_badges" /\ last.awarded # NoBadges
    /\ Cardinality(FinalizedSessions(db)) > 10
    /\ BadgesOfKind(db, NoPredicateKinds) = {7, 11, 12}

StartsFocus == last'.op = "start_focus"

StartsBreak == last'.op = "start_break" \/ Emitted(timer', "focus_completed")

\* C30: 0 <= remaining_seconds <= total_seconds in every state; a phase starts
\* with total_seconds at the focus or break duration of that moment and
\* total_seconds keeps that value while the timer stays in FOCUS, BREAK or PAUSED;
\* stop() leaves IDLE with remaining_seconds = 0 and total_seconds = 0.
C30_TimerInvariant ==
    /\ [](0 <= timer.remaining_seconds /\ timer.remaining_seconds <= timer.total_seconds)
    /\ [][ /\ StartsFocus => timer'.total_seconds = timer.focus_duration
           /\ StartsBreak => timer'.total_seconds = timer.break_duration
           /\ (~StartsFocus /\ ~StartsBreak
                  /\ timer'.state \in {"focus", "break", "paused"}) =>
                 timer'.total_seconds = timer.total_seconds
           /\ last'.op = "stop" =>
                 /\ timer'.state = "idle"
                 /\ timer'.remaining_seconds = 0
                 /\ timer'.total_seconds = 0 ]_vars

\* C30's case: a 15-minute focus paused part-way, and the focus time then set to
\* 1 minute: total_seconds is still the 900 the phase was started with.
C30_Witness ==
    /\ timer.state = "paused" /\ phase = "focus"
    /\ timer.total_seconds = 900 /\ timer.focus_duration = 60
    /\ timer.remaining_seconds < timer.total_seconds

=============================================================================
